---- MODULE Spec2Model ----
(***************************************************************************)
(* Model of the prometheus-juju-exporter charm: the rendering and          *)
(* validation of the exporter configuration (src/src/exporter.py) and the  *)
(* reconciliation pass _configure with restart_pje (src/src/charm.py).     *)
(*                                                                         *)
(* Python values are tagged records of one shape, a string is a sequence   *)
(* of one-character strings, a text (an error message, a status message)   *)
(* is a sequence of string tokens, and an Optional is a sequence of length *)
(* 0 or 1.                                                                 *)
(***************************************************************************)
EXTENDS Integers, Sequences, FiniteSets, TLC

VARIABLES
    config,               \* self.config: the raw charm options
    agent_conf,           \* ../agent.conf as read by get_controller_ca_cert
    can_connect,          \* self.container.can_connect()
    status,               \* self.unit.status
    current_config_hash,  \* self.current_config_hash
    pushed,               \* content of OCI_CONFIG_PATH in the container
    plan,                 \* self.container.get_plan().services
    scrape_target,        \* what prometheus_target last exposed
    opened_ports,         \* hookenv.opened_ports()
    last,                 \* record of the most recent pass of _configure
    prev,                 \* summary of the pass before it
    passes,               \* number of passes so far
    pending_restart,      \* a document was pushed and the service not restarted since
    given,                \* the argument of a function applied on its own
    answer                \* what that function returned

vars == <<config, agent_conf, can_connect, status, current_config_hash, pushed,
          plan, scrape_target, opened_ports, last, prev, passes, pending_restart,
          given, answer>>

\* Number of reconciliation passes explored.
MaxPasses == 2

-----------------------------------------------------------------------------
(* Python values *)

PyNone == [t |-> "none", i |-> 0, s |-> <<>>, l |-> <<>>]

PyInt(n) == [t |-> "int", i |-> n, s |-> <<>>, l |-> <<>>]

PyBool(b) == [t |-> "bool", i |-> IF b THEN 1 ELSE 0, s |-> <<>>, l |-> <<>>]

PyStr(chars) == [t |-> "str", i |-> 0, s |-> chars, l |-> <<>>]

PyList(items) == [t |-> "list", i |-> 0, s |-> <<>>, l |-> items]

\* bool(v): None, 0, False, "" and [] are falsy.
Truthy(v) ==
    CASE v.t = "none" -> FALSE
      [] v.t = "int"  -> v.i # 0
      [] v.t = "bool" -> v.i # 0
      [] v.t = "str"  -> v.s # <<>>
      [] v.t = "list" -> v.l # <<>>

\* str.split(sep): the pieces between the separators, nothing trimmed.
RECURSIVE SplitFrom(_, _, _)
SplitFrom(chars, sep, piece) ==
    IF chars = <<>> THEN <<piece>>
    ELSE IF Head(chars) = sep
         THEN <<piece>> \o SplitFrom(Tail(chars), sep, <<>>)
         ELSE SplitFrom(Tail(chars), sep, Append(piece, Head(chars)))

Split(chars, sep) == SplitFrom(chars, sep, <<>>)

RECURSIVE StripLeft(_)
StripLeft(chars) ==
    IF chars # <<>> /\ Head(chars) = " " THEN StripLeft(Tail(chars)) ELSE chars

RECURSIVE StripRight(_)
StripRight(chars) ==
    IF chars # <<>> /\ chars[Len(chars)] = " "
    THEN StripRight(SubSeq(chars, 1, Len(chars) - 1))
    ELSE chars

Digits == {"0", "1", "2", "3", "4", "5", "6", "7", "8", "9"}

DigitValue(c) ==
    CASE c = "0" -> 0 [] c = "1" -> 1 [] c = "2" -> 2 [] c = "3" -> 3
      [] c = "4" -> 4 [] c = "5" -> 5 [] c = "6" -> 6 [] c = "7" -> 7
      [] c = "8" -> 8 [] c = "9" -> 9

RECURSIVE DigitsValue(_, _)
DigitsValue(chars, acc) ==
    IF chars = <<>> THEN acc
    ELSE DigitsValue(Tail(chars), acc * 10 + DigitValue(Head(chars)))

\* The digits of int(str), after the sign.
ParseDigits(negative, digits) ==
    IF digits # <<>> /\ \A k \in 1..Len(digits) : digits[k] \in Digits
    THEN [exc |-> "none",
          i   |-> IF negative THEN 0 - DigitsValue(digits, 0)
                  ELSE DigitsValue(digits, 0)]
    ELSE [exc |-> "ValueError", i |-> 0]

\* int(str) on the text without its surrounding blanks: one sign allowed.
ParseInt(body) ==
    IF body # <<>> /\ Head(body) \in {"+", "-"}
    THEN ParseDigits(Head(body) = "-", Tail(body))
    ELSE ParseDigits(FALSE, body)

\* int(v): an int or a bool converts, a string is parsed or raises
\* ValueError, None and a list raise TypeError.
PyIntOf(v) ==
    CASE v.t \in {"int", "bool"} -> [exc |-> "none", i |-> v.i]
      [] v.t \in {"none", "list"} -> [exc |-> "TypeError", i |-> 0]
      [] v.t = "str" -> ParseInt(StripRight(StripLeft(v.s)))

-----------------------------------------------------------------------------
(* exporter.py: ExporterConfig *)

controller_endpoint(controller) ==
    IF controller = PyNone \/ controller = PyStr(<<>>)
    THEN PyStr(<<>>)
    ELSE PyList(Split(controller.s, ","))

DefaultMatchInterfaces == <<".", "*">>

\* ExporterConfig(...).render() as called by generate_exporter_config.
render(cfg, ca_cert) ==
    [debug     |-> cfg.debug,
     customer  |-> [name |-> cfg.customer, cloud_name |-> cfg.cloud_name],
     juju      |-> [controller_endpoint |-> controller_endpoint(cfg.controller_url),
                    controller_cacert   |-> ca_cert,
                    username            |-> cfg.juju_user,
                    password            |-> cfg.juju_password],
     exporter  |-> [collect_interval |-> cfg.scrape_interval,
                    port             |-> cfg.scrape_port],
     detection |-> [virt_macs |-> IF Truthy(cfg.virtual_macs)
                                  THEN PyList(Split(cfg.virtual_macs.s, ","))
                                  ELSE PyList(<<>>),
                    match_interfaces |-> IF Truthy(cfg.match_interfaces)
                                         THEN cfg.match_interfaces
                                         ELSE PyStr(DefaultMatchInterfaces)]]

-----------------------------------------------------------------------------
(* exporter.py: ExporterOCI *)

\* Each required option: its section, its key, and its dotted name.
_REQUIRED_CONFIG ==
    << <<"customer", "name", "customer.name">>,
       <<"customer", "cloud_name", "customer.cloud_name">>,
       <<"juju", "controller_endpoint", "juju.controller_endpoint">>,
       <<"juju", "controller_cacert", "juju.controller_cacert">>,
       <<"juju", "username", "juju.username">>,
       <<"juju", "password", "juju.password">>,
       <<"exporter", "port", "exporter.port">>,
       <<"exporter", "collect_interval", "exporter.collect_interval">>,
       <<"detection", "virt_macs", "detection.virt_macs">>,
       <<"detection", "match_interfaces", "detection.match_interfaces">> >>

IsMissing(doc, option) == ~Truthy(doc[option[1]][option[2]])

_validate_required_options(doc) ==
    [k \in 1..Len(SelectSeq(_REQUIRED_CONFIG, LAMBDA o : IsMissing(doc, o))) |->
        SelectSeq(_REQUIRED_CONFIG, LAMBDA o : IsMissing(doc, o))[k][3]]

linesep == "\n"

MaxPort == 65535

\* A variant of the port check that accepts 65535.
PortErrors_Inclusive(port) ==
    CASE port.exc = "TypeError"  -> [exc |-> "TypeError", errors |-> <<>>]
      [] port.exc = "ValueError" ->
            [exc    |-> "none",
             errors |-> <<"Configuration option '", "port", "' must be a number.", linesep>>]
      [] OTHER ->
            [exc    |-> "none",
             errors |-> IF ~(0 < port.i /\ port.i <= MaxPort)
                        THEN <<"Port ", ToString(port.i),
                               " is not valid port number.", linesep>>
                        ELSE <<>>]

\* Lines 117-124, with port the outcome of int(...).
PortErrors(port) ==
    CASE port.exc = "TypeError"  -> [exc |-> "TypeError", errors |-> <<>>]
      [] port.exc = "ValueError" ->
            [exc    |-> "none",
             errors |-> <<"Configuration option '", "port", "' must be a number.", linesep>>]
      [] OTHER ->
            [exc    |-> "none",
             errors |-> IF ~(0 < port.i /\ port.i < MaxPort)
                        THEN <<"Port ", ToString(port.i),
                               " is not valid port number.", linesep>>
                        ELSE <<>>]

\* Lines 127-137, with collect_interval the outcome of int(...).
IntervalErrors(collect_interval) ==
    CASE collect_interval.exc = "TypeError" -> [exc |-> "TypeError", errors |-> <<>>]
      [] collect_interval.exc = "ValueError" ->
            [exc    |-> "none",
             errors |-> <<"Configuration option '", "collect_interval",
                          "' must be a number.", linesep>>]
      [] OTHER ->
            [exc    |-> "none",
             errors |-> IF collect_interval.i < 1
                        THEN <<"Configuration option '", "collect_interval",
                               "' must be a positive number.", linesep>>
                        ELSE <<>>]

\* The port check, then the interval check: an exception of either leaves
\* the function, otherwise the errors of both are returned.
OptionValueErrors(p, c) ==
    IF p.exc # "none" THEN p
    ELSE IF c.exc # "none" THEN c
    ELSE [exc |-> "none", errors |-> p.errors \o c.errors]

_validate_option_values(doc) ==
    OptionValueErrors(PortErrors(PyIntOf(doc.exporter.port)),
                      IntervalErrors(PyIntOf(doc.exporter.collect_interval)))

\* ", ".join(names)
RECURSIVE Join(_)
Join(names) ==
    IF names = <<>> THEN <<>>
    ELSE IF Len(names) = 1 THEN <<names[1]>>
    ELSE <<names[1], ", ">> \o Join(Tail(names))

\* Lines 151-154: the line that names the missing options, if any.
MissingLine(missing_options) ==
    IF missing_options # <<>>
    THEN <<"Following config options are missing: ">>
         \o Join(missing_options) \o <<linesep>>
    ELSE <<>>

\* Lines 158-159: raise ExporterConfigError when there is any error text.
RaiseIfErrors(errors) ==
    IF errors # <<>> THEN [exc |-> "ExporterConfigError", msg |-> errors]
    ELSE [exc |-> "none", msg |-> <<>>]

\* A variant that raises on the missing options without the value errors.
WithOptionValues_FirstOnly(first, values) ==
    IF values.exc # "none" THEN [exc |-> values.exc, msg |-> <<>>]
    ELSE IF first # <<>> THEN RaiseIfErrors(first)
    ELSE RaiseIfErrors(values.errors)

\* Line 156: an exception of the value checks goes through, their errors
\* are added to the text.
WithOptionValues(first, values) ==
    IF values.exc # "none" THEN [exc |-> values.exc, msg |-> <<>>]
    ELSE RaiseIfErrors(first \o values.errors)

\* validate_config: exc is "none", "ExporterConfigError" (msg is its text)
\* or the exception that escaped the value checks.
validate_config(doc) ==
    WithOptionValues(MissingLine(_validate_required_options(doc)),
                     _validate_option_values(doc))

\* yaml.safe_dump of the document.
safe_dump(doc) == <<"yaml", doc>>

\* Lines 174-180, with v the outcome of validate_config.
DumpValidated(doc, v) ==
    [exc |-> v.exc, msg |-> v.msg,
     ret |-> IF v.exc = "none" THEN <<safe_dump(doc)>> ELSE <<>>]

\* apply_config: validates, then returns the serialized document.
apply_config(doc) == DumpValidated(doc, validate_config(doc))

-----------------------------------------------------------------------------
(* charm.py: constants and helpers *)

\* Mapping between charm and exporter option names: <<charm, exporter>>.
OCI_CONFIG_MAP ==
    << <<"debug", "debug">>,
       <<"customer", "customer.name">>,
       <<"cloud-name", "customer.cloud_name">>,
       <<"controller-url", "juju.controller_endpoint">>,
       <<"juju-user", "juju.username">>,
       <<"juju-password", "juju.password">>,
       <<"scrape-interval", "exporter.collect_interval">>,
       <<"scrape-port", "exporter.port">>,
       <<"virtual-macs", "detection.virt_macs">>,
       <<"match-interfaces", "detection.match_interfaces">> >>

name == "pje"

\* Optional values: None is the empty sequence.
None == <<>>

\* hashlib.sha256(str(doc)).hexdigest(): one digest per document.
sha256_hexdigest(doc) == <<"sha256", doc>>

MaintenanceStatus == [name |-> "maintenance",
                      message |-> <<"Processing new charm configuration.">>]

BlockedStatus == [name |-> "blocked",
                  message |-> <<"Invalid configuration. Please see logs.">>]

ActiveStatus == [name |-> "active", message |-> <<>>]

\* The status of a unit whose charm has not set one yet.
UnknownStatus == [name |-> "unknown", message |-> <<>>]

\* err_msg.replace(oci_option, charm_option) for one pair of the map.
ReplaceOption(msg, pair) ==
    [k \in 1..Len(msg) |-> IF msg[k] = pair[2] THEN pair[1] ELSE msg[k]]

RECURSIVE ReplaceAll(_, _)
ReplaceAll(msg, pairs) ==
    IF pairs = <<>> THEN msg
    ELSE ReplaceAll(ReplaceOption(msg, Head(pairs)), Tail(pairs))

\* The loop of _configure that puts charm option names into the message.
TranslateError(msg) == ReplaceAll(msg, OCI_CONFIG_MAP)

Base64Alphabet == {"A", "B", "C", "D", "Q", "U", "J", "="}

\* b64decode(cert, validate=True): the decoded text stands as the encoded
\* one behind a marker; a malformed value raises binascii.Error.
b64decode(chars) ==
    IF Len(chars) % 4 = 0 /\ \A k \in 1..Len(chars) : chars[k] \in Base64Alphabet
    THEN [exc |-> "none", value |-> PyStr(<<"b64:">> \o chars)]
    ELSE [exc |-> "Base64Error", value |-> PyNone]

\* Lines 111-120, with d the outcome of b64decode.
DecodedCert(d) ==
    IF d.exc = "none" THEN [exc |-> "none", value |-> d.value]
    ELSE [exc |-> "RuntimeError", value |-> PyNone]

\* Lines 122-130: the certificate of agent.conf.
AgentCert(agent) ==
    IF ~agent.exists THEN [exc |-> "FileNotFoundError", value |-> PyNone]
    ELSE IF ~Truthy(agent.cacert) THEN [exc |-> "RuntimeError", value |-> PyNone]
    ELSE [exc |-> "none", value |-> agent.cacert]

\* Line 110: self.config.get("controller-ca-cert", "")
ExplicitCert(cfg) ==
    IF cfg.controller_ca_cert = PyNone THEN PyStr(<<>>) ELSE cfg.controller_ca_cert

get_controller_ca_cert(cfg, agent) ==
    IF Truthy(ExplicitCert(cfg))
    THEN DecodedCert(b64decode(ExplicitCert(cfg).s))
    ELSE AgentCert(agent)

\* Lines 136-150, with ca the outcome of get_controller_ca_cert.
RenderWith(cfg, ca) ==
    IF ca.exc # "none" THEN [exc |-> ca.exc, doc |-> <<>>]
    ELSE [exc |-> "none", doc |-> <<render(cfg, ca.value)>>]

generate_exporter_config(cfg, agent) ==
    RenderWith(cfg, get_controller_ca_cert(cfg, agent))

_build_layer ==
    [summary     |-> "prometheus-juju-exporter layer",
     description |-> "prometheus-juju-exporter layer",
     services    |-> (name :> [override |-> "replace",
                               summary  |-> "prometheus-juju-exporter service",
                               command  |-> "/bin/python3 -m prometheus_juju_exporter.cli",
                               startup  |-> "enabled"])]

\* container.add_layer(name, layer, combine=True): the layer's services
\* replace those of the same name in the plan.
add_layer(services, layer) == layer.services @@ services

-----------------------------------------------------------------------------
(* charm.py: one pass.  A pass works on a context c: the controller and   *)
(* collaborator state it may change, and a trace of what it did.  e gives  *)
(* the outcomes of the collaborators' calls in this pass.                  *)

SetStatus(c, st) == [c EXCEPT !.status = st, !.writes = Append(@, st)]

Raise(c, exc) == [c EXCEPT !.raised = exc]

LogError(c, text) == [c EXCEPT !.errlog = Append(@, text)]

RestartError(cause) ==
    <<"Could not restart prometheus-juju-exporter and build new layer: ", cause>>

\* Lines 257-263, once add_layer has returned.
RestartService(c, e) ==
    IF e.restart # "ok"
    THEN LogError([c EXCEPT !.restart_calls = @ + 1], RestartError(e.restart))
    ELSE SetStatus([c EXCEPT !.restart_calls = @ + 1, !.restarted = @ + 1],
                   ActiveStatus)

\* Lines 255-263, with the layer of line 253.
InstallAndRestart(c, layer, e) ==
    IF e.add_layer # "ok"
    THEN LogError([c EXCEPT !.add_layer_calls = @ + 1], RestartError(e.add_layer))
    ELSE RestartService([c EXCEPT !.add_layer_calls = @ + 1,
                                  !.plan = add_layer(@, layer)], e)

\* restart_pje: install the layer, restart the service, report Active; any
\* exception is logged and swallowed.
restart_pje(c, e) ==
    InstallAndRestart([c EXCEPT !.restart_pje_calls = @ + 1], _build_layer, e)

\* interval_minutes * 60
RECURSIVE Repeat(_, _)
Repeat(chars, n) == IF n = 0 THEN <<>> ELSE chars \o Repeat(chars, n - 1)

SecondsPerMinute == 60

Times60(v) ==
    CASE v.t \in {"int", "bool"} -> PyInt(v.i * SecondsPerMinute)
      [] v.t = "str"  -> PyStr(Repeat(v.s, SecondsPerMinute))
      [] v.t = "list" -> PyList(Repeat(v.l, SecondsPerMinute))

\* Lines 162-168: expose the target; a PrometheusConfigError is logged and
\* raised again.
ExposeScrapeTarget(c, cfg, e) ==
    IF e.expose # "ok"
    THEN Raise(LogError([c EXCEPT !.expose_calls = @ + 1, !.expose_failures = @ + 1],
                        <<"Failed to configure prometheus scrape target: ", e.expose>>),
               "PrometheusConfigError")
    ELSE [c EXCEPT !.expose_calls = @ + 1,
                   !.scrape_target =
                        <<[port            |-> cfg.scrape_port,
                           metrics_path    |-> "/metrics",
                           scrape_interval |-> Times60(cfg.scrape_interval),
                           scrape_timeout  |-> cfg.scrape_timeout]>>]

\* reconfigure_scrape_target: self.config[...] raises KeyError for an absent
\* option.
reconfigure_scrape_target(c, cfg, e) ==
    IF cfg.scrape_port = PyNone \/ cfg.scrape_interval = PyNone
       \/ cfg.scrape_timeout = PyNone
    THEN Raise(c, "KeyError")
    ELSE ExposeScrapeTarget(c, cfg, e)

\* reconfigure_open_ports: close every opened port, open the scrape port;
\* a failing hook tool raises.
reconfigure_open_ports(c, cfg, e) ==
    IF cfg.scrape_port = PyNone THEN Raise(c, "KeyError")
    ELSE IF e.ports # "ok"
         THEN Raise([c EXCEPT !.ports_failures = @ + 1], "CalledProcessError")
    ELSE [c EXCEPT !.opened_ports = {cfg.scrape_port}]

\* A variant of the handler that reports Blocked and does not return.
OnExporterConfigError_NoReturn(c, msg) ==
    SetStatus(LogError(c, TranslateError(msg)), BlockedStatus)

\* A variant of the handler that logs the message as apply_config gave it
\* and puts it in the status.
OnExporterConfigError_Untranslated(c, msg) ==
    [SetStatus(LogError(c, msg), [name |-> "blocked", message |-> msg])
        EXCEPT !.returned = "blocked"]

\* A variant of the handler that forgets the stored hash.
OnExporterConfigError_ResetHash(c, msg) ==
    [SetStatus(LogError(c, TranslateError(msg)), BlockedStatus)
        EXCEPT !.returned = "blocked", !.current_config_hash = None]

\* Lines 218-226: the handler of ExporterConfigError.
OnExporterConfigError(c, msg) ==
    [SetStatus(LogError(c, TranslateError(msg)), BlockedStatus)
        EXCEPT !.returned = "blocked"]

PushRefused ==
    <<"Could not push datasource config. Pebble refused connection. Shutting down?">>

\* A variant of the push that never stores the hash.
PushConfig_ForgetHash(c, config_data, exporter_config_hash, e) ==
    IF e.push = "ok"
    THEN [c EXCEPT !.push_calls = @ + 1, !.pushed = config_data, !.pushes = @ + 1]
    ELSE LogError([c EXCEPT !.push_calls = @ + 1], PushRefused)

\* A variant of the push that stores the hash although the push failed.
PushConfig_AdvanceOnFailure(c, config_data, exporter_config_hash, e) ==
    IF e.push = "ok"
    THEN [c EXCEPT !.push_calls = @ + 1, !.pushed = config_data, !.pushes = @ + 1,
                   !.current_config_hash = <<exporter_config_hash>>]
    ELSE LogError([c EXCEPT !.push_calls = @ + 1,
                            !.current_config_hash = <<exporter_config_hash>>],
                  PushRefused)

\* Lines 215-217 and 227-230: push the document and store its hash, or log
\* the refused connection.
PushConfig(c, config_data, exporter_config_hash, e) ==
    IF e.push = "ok"
    THEN [c EXCEPT !.push_calls = @ + 1, !.pushed = config_data, !.pushes = @ + 1,
                   !.current_config_hash = <<exporter_config_hash>>]
    ELSE LogError([c EXCEPT !.push_calls = @ + 1], PushRefused)

\* A variant that stores the hash before the document is validated.
AfterApplyConfig_HashFirst(c, a, exporter_config_hash, e) ==
    CASE a.exc = "ExporterConfigError" ->
            OnExporterConfigError([c EXCEPT !.current_config_hash = <<exporter_config_hash>>],
                                  a.msg)
      [] a.exc = "none" ->
            [PushConfig(c, a.ret, exporter_config_hash, e) EXCEPT !.restart = TRUE]
      [] OTHER -> Raise(c, a.exc)

\* Lines 213-231, with a the outcome of apply_config.
AfterApplyConfig(c, a, exporter_config_hash, e) ==
    CASE a.exc = "ExporterConfigError" -> OnExporterConfigError(c, a.msg)
      [] a.exc = "none" ->
            [PushConfig(c, a.ret, exporter_config_hash, e) EXCEPT !.restart = TRUE]
      [] OTHER -> Raise(c, a.exc)

\* Lines 213-214: call apply_config and go on with its outcome.
ApplyConfig(c, exporter_config, a, e) ==
    AfterApplyConfig([c EXCEPT !.apply_calls = @ + 1, !.validation = a.exc,
                               !.violations = a.msg],
                     a, sha256_hexdigest(exporter_config), e)

\* Lines 206-231: apply the document when its hash is not the stored one.
\* The result carries restart, the flag of line 203.
ApplyIfChanged(c, exporter_config, e) ==
    IF <<sha256_hexdigest(exporter_config)>> # c.current_config_hash
    THEN ApplyConfig(c, exporter_config, apply_config(exporter_config), e)
    ELSE c

\* A variant in which the comparison of the services alone decides.
DefinitionDiff_Overrides(c) ==
    [c EXCEPT !.diffed = TRUE,
              !.restart = c.plan # _build_layer.services]

\* Lines 233-234: the installed services against the desired ones.
DefinitionDiff(c) ==
    [c EXCEPT !.diffed = TRUE,
              !.restart = IF c.plan # _build_layer.services THEN TRUE ELSE @]

\* Lines 240-250: restart, or move to active when not active already.
RestartOrActive(c, e) ==
    IF c.restart
    THEN restart_pje(c, e)
    ELSE IF c.status.name # "active"
         THEN SetStatus(c, ActiveStatus)
         ELSE c

\* Lines 239-250: the restart decision.
RestartDecision(c, e) == RestartOrActive([c EXCEPT !.decided = TRUE], e)

\* Lines 239-250, once reconfigure_open_ports has returned or raised.
AfterOpenPorts(c, e) == IF c.raised # "none" THEN c ELSE RestartDecision(c, e)

\* Lines 237-250, once reconfigure_scrape_target has returned or raised.
AfterScrapeTarget(c, cfg, e) ==
    IF c.raised # "none" THEN c
    ELSE AfterOpenPorts(reconfigure_open_ports(c, cfg, e), e)

\* Lines 233-250, once the apply step has returned, raised or gone on.
AfterApply(c, cfg, e) ==
    IF c.raised # "none" \/ c.returned # "" THEN c
    ELSE AfterScrapeTarget(reconfigure_scrape_target(DefinitionDiff(c), cfg, e), cfg, e)

\* Lines 205-250, with the result of generate_exporter_config.
AfterRender(c, gen, cfg, e) ==
    IF gen.exc # "none" THEN Raise(c, gen.exc)
    ELSE AfterApply(ApplyIfChanged([c EXCEPT !.rendered = gen.doc], gen.doc[1], e),
                    cfg, e)

\* Lines 201-250: the pass behind the entry guard.
ConfigureBody(c, cfg, agent, e) ==
    AfterRender([SetStatus(c, MaintenanceStatus) EXCEPT !.ran = TRUE],
                generate_exporter_config(cfg, agent), cfg, e)

\* A variant of _configure without the entry guard.
_configure_Unguarded(c, cfg, agent, connected, e) == ConfigureBody(c, cfg, agent, e)

\* _configure: nothing happens while the container cannot be reached.
_configure(c, cfg, agent, connected, e) ==
    IF ~connected THEN c ELSE ConfigureBody(c, cfg, agent, e)

-----------------------------------------------------------------------------
(* The raw option snapshots and the collaborators' outcomes explored *)

\* Options that pass validation; the CA certificate comes from agent.conf.
ValidOptions ==
    [debug              |-> PyBool(FALSE),
     customer           |-> PyStr(<<"c">>),
     cloud_name         |-> PyStr(<<"k">>),
     controller_url     |-> PyStr(<<"a", ",", "b">>),
     controller_ca_cert |-> PyNone,
     juju_user          |-> PyStr(<<"u">>),
     juju_password      |-> PyStr(<<"p">>),
     scrape_interval    |-> PyInt(15),
     scrape_port        |-> PyInt(5000),
     scrape_timeout     |-> PyInt(30),
     virtual_macs       |-> PyStr(<<"m">>),
     match_interfaces   |-> PyNone]

\* Every option absent.
UnavailableOptions == [k \in DOMAIN ValidOptions |-> PyNone]

RawOptionSnapshots ==
    { ValidOptions,
      [ValidOptions EXCEPT !.scrape_port = PyInt(8080)],
      [ValidOptions EXCEPT !.customer = PyNone, !.scrape_port = PyInt(99999)],
      [ValidOptions EXCEPT !.controller_ca_cert = PyStr(<<"!">>)],
      UnavailableOptions }

AgentConfPresent == [exists |-> TRUE, cacert |-> PyStr(<<"C", "A">>)]

AgentConfMissing == [exists |-> FALSE, cacert |-> PyNone]

\* What the charm can read: the options, and agent.conf beside the charm.
Environments ==
    (RawOptionSnapshots \X {AgentConfPresent})
        \cup ({ValidOptions, UnavailableOptions} \X {AgentConfMissing})

\* A service definition left by another revision of the charm.
StaleServices ==
    (name :> [override |-> "replace",
              summary  |-> "prometheus-juju-exporter service",
              command  |-> "/bin/python3 -m prometheus_juju_exporter",
              startup  |-> "enabled"])

NoServices == <<>>

\* What the collaborators answer in one pass.  The calls after the push
\* run one after the other and the first failure ends the pass, so at most
\* one of them fails.
Outcomes ==
    { e \in [push      : {"ok", "ConnectionError"},
             expose    : {"ok", "PrometheusConfigError"},
             ports     : {"ok", "CalledProcessError"},
             add_layer : {"ok", "ChangeError"},
             restart   : {"ok", "ChangeError"}] :
        Cardinality({k \in {"expose", "ports", "add_layer", "restart"} : e[k] # "ok"}) <= 1 }

ExposeOutcomes == { e \in Outcomes : e.push = "ok" /\ e.ports = "ok"
                                     /\ e.add_layer = "ok" /\ e.restart = "ok" }

-----------------------------------------------------------------------------
(* The state machine *)

\* The context a pass starts from.
NewContext ==
    [status              |-> status,
     current_config_hash |-> current_config_hash,
     pushed              |-> pushed,
     plan                |-> plan,
     scrape_target       |-> scrape_target,
     opened_ports        |-> opened_ports,
     writes              |-> <<>>,
     errlog              |-> <<>>,
     raised              |-> "none",
     returned            |-> "",
     ran                 |-> FALSE,
     rendered            |-> <<>>,
     validation          |-> "skipped",
     violations          |-> <<>>,
     apply_calls         |-> 0,
     push_calls          |-> 0,
     pushes              |-> 0,
     restart             |-> FALSE,
     diffed              |-> FALSE,
     decided             |-> FALSE,
     restart_pje_calls   |-> 0,
     add_layer_calls     |-> 0,
     restart_calls       |-> 0,
     restarted           |-> 0,
     expose_calls        |-> 0,
     expose_failures     |-> 0,
     ports_failures      |-> 0]

\* gen, the outcome of generate_exporter_config, is a document that
\* validate_config accepts.
IsValidDocument(gen) == gen.exc = "none" /\ validate_config(gen.doc[1]).exc = "none"

\* The options render to a document that validate_config accepts.
ValidOptionsIn(r) == IsValidDocument(generate_exporter_config(r.raw, r.agent))

\* What is kept of a pass once the next one has run.
PassSummary(r) ==
    [ran           |-> r.post.ran,
     hash_absent   |-> r.pre.current_config_hash = None,
     valid         |-> ValidOptionsIn(r),
     apply_calls   |-> r.post.apply_calls,
     push_calls    |-> r.post.push_calls,
     pushes        |-> r.post.pushes,
     restart_calls |-> r.post.restart_calls,
     restarted     |-> r.post.restarted]

\* The pushed document waits for a restart: a push later than the last
\* restart of the service.  In a pass the push comes before the restart.
PendingRestart(pending, c) ==
    IF c.restarted > 0 THEN FALSE
    ELSE IF c.pushes > 0 THEN TRUE
    ELSE pending

\* __init__ (lines 72-80) on a unit that has set no status yet.
Init ==
    /\ \E env \in Environments : config = env[1] /\ agent_conf = env[2]
    /\ can_connect = FALSE
    /\ status = UnknownStatus
    /\ current_config_hash = None
    /\ pushed = None
    /\ plan = NoServices
    /\ scrape_target = None
    /\ opened_ports = {}
    /\ last = None
    /\ prev = None
    /\ passes = 0
    /\ pending_restart = FALSE
    /\ given = None
    /\ answer = None

\* One run of _configure to completion, with what it did kept in last.
Pass ==
    /\ passes < MaxPasses
    /\ \E e \in Outcomes :
         \E c \in {_configure(NewContext, config, agent_conf, can_connect, e)} :
             /\ status' = c.status
             /\ current_config_hash' = c.current_config_hash
             /\ pushed' = c.pushed
             /\ plan' = c.plan
             /\ scrape_target' = c.scrape_target
             /\ opened_ports' = c.opened_ports
             /\ pending_restart' = PendingRestart(pending_restart, c)
             /\ last' = <<[raw |-> config, agent |-> agent_conf,
                           connected |-> can_connect,
                           same_options |-> /\ last # None
                                            /\ last[1].raw = config
                                            /\ last[1].agent = agent_conf,
                           plan_kept |-> last # None /\ last[1].post.plan = plan,
                           pre |-> NewContext, post |-> c]>>
    /\ prev' = IF last = None THEN None ELSE <<PassSummary(last[1])>>
    /\ passes' = passes + 1
    /\ UNCHANGED <<config, agent_conf, can_connect, given, answer>>

_on_pje_pebble_ready == Pass

_on_config_changed == Pass

_on_upgrade_charm == _on_config_changed

\* The prometheus-scrape relation became available.
_on_prometheus_available ==
    /\ passes < MaxPasses
    /\ \E e \in ExposeOutcomes :
         scrape_target' = reconfigure_scrape_target(NewContext, config, e).scrape_target
    /\ UNCHANGED <<config, agent_conf, can_connect, status, current_config_hash,
                   pushed, plan, opened_ports, last, prev, passes,
                   pending_restart, given, answer>>

\* The operator sets the charm options, or agent.conf changes.
ConfigSet ==
    /\ passes < MaxPasses
    /\ \E env \in Environments \ {<<config, agent_conf>>} :
            config' = env[1] /\ agent_conf' = env[2]
    /\ UNCHANGED <<can_connect, status, current_config_hash, pushed,
                   plan, scrape_target, opened_ports, last, prev, passes,
                   pending_restart, given, answer>>

\* Pebble in the workload container becomes reachable or unreachable.
PebbleSet ==
    /\ passes < MaxPasses
    /\ can_connect' = ~can_connect
    /\ UNCHANGED <<config, agent_conf, status, current_config_hash, pushed,
                   plan, scrape_target, opened_ports, last, prev, passes,
                   pending_restart, given, answer>>

\* The installed services change behind the charm's back.
PlanDrift ==
    /\ passes < MaxPasses
    /\ plan' \in {NoServices, StaleServices} \ {plan}
    /\ UNCHANGED <<config, agent_conf, can_connect, status, current_config_hash,
                   pushed, scrape_target, opened_ports, last, prev, passes,
                   pending_restart, given, answer>>

Next ==
    \/ _on_pje_pebble_ready
    \/ _on_config_changed
    \/ _on_upgrade_charm
    \/ _on_prometheus_available
    \/ ConfigSet
    \/ PebbleSet
    \/ PlanDrift

Spec == Init /\ [][Next]_vars

-----------------------------------------------------------------------------
(* The functions of exporter.py and the translation of charm.py applied on *)
(* their own, each to one argument of a bounded set.                       *)

\* Port and interval values: integers, texts that int() rejects, a text it
\* accepts, and an absent option.
IntegerPorts == { PyInt(n) : n \in {0 - 1, 0, 1, 5000, 65534, 65535, 65536, 99999} }

IntegerIntervals == { PyInt(n) : n \in {0 - 1, 0, 1, 15} }

NonNumeric == { PyStr(<<>>), PyStr(<<"x">>), PyStr(<<"8", "x">>),
                PyStr(<<" ">>), PyStr(<<"-">>) }

\* Raw options whose rendered documents have every combination of a missing
\* option and a port or interval violation.
ProbedOptions ==
    { [ValidOptions EXCEPT !.customer = c, !.controller_url = u,
                           !.scrape_port = p, !.scrape_interval = i,
                           !.virtual_macs = m] :
        c \in {PyNone, PyStr(<<"c">>)},
        u \in {PyNone, PyStr(<<"a">>)},
        p \in {PyInt(5000), PyInt(99999), PyInt(0), PyStr(<<"x">>),
               PyStr(<<"8", "0">>), PyNone},
        i \in {PyInt(15), PyInt(0), PyStr(<<"y">>), PyNone},
        m \in {PyNone, PyStr(<<"m">>)} }

\* The documents generate_exporter_config makes of them.
RenderedDocuments == { render(o, AgentConfPresent.cacert) : o \in ProbedOptions }

\* The valid document with one required option emptied.
EmptiedDocuments ==
    { [render(ValidOptions, AgentConfPresent.cacert)
          EXCEPT ![_REQUIRED_CONFIG[k][1]][_REQUIRED_CONFIG[k][2]] = PyStr(<<>>)] :
        k \in 1..Len(_REQUIRED_CONFIG) }

\* The length of the comma-separated texts given to render.
MaxText == 3

CommaTexts == UNION { [1..n -> {"a", "b", ",", " "}] : n \in 0..MaxText }

\* The charm at rest while a function is applied on its own.
AtRest ==
    /\ config = ValidOptions
    /\ agent_conf = AgentConfPresent
    /\ can_connect = FALSE
    /\ status = UnknownStatus
    /\ current_config_hash = None
    /\ pushed = None
    /\ plan = NoServices
    /\ scrape_target = None
    /\ opened_ports = {}
    /\ last = None
    /\ prev = None
    /\ passes = 0
    /\ pending_restart = FALSE

FunctionInit ==
    /\ AtRest
    /\ answer = None
    /\ \/ \E d \in RenderedDocuments : given = [fn |-> "validate_config", arg |-> d]
       \/ \E d \in RenderedDocuments \cup EmptiedDocuments :
            given = [fn |-> "_configure", arg |-> d]
       \/ \E p \in IntegerPorts \cup NonNumeric :
            \E i \in IntegerIntervals \cup NonNumeric :
                given = [fn  |-> "_validate_option_values",
                         arg |-> [exporter |-> [port |-> p, collect_interval |-> i]]]
       \/ \E t \in CommaTexts : given = [fn |-> "render", arg |-> PyStr(t)]

\* validate_config on a rendered document.
ValidateConfig ==
    /\ answer = None
    /\ given.fn = "validate_config"
    /\ answer' = <<validate_config(given.arg)>>
    /\ UNCHANGED <<config, agent_conf, can_connect, status, current_config_hash,
                   pushed, plan, scrape_target, opened_ports, last, prev, passes,
                   pending_restart, given>>

\* _validate_option_values on the port and the interval of a document.
ValidateOptionValues ==
    /\ answer = None
    /\ given.fn = "_validate_option_values"
    /\ answer' = <<_validate_option_values(given.arg)>>
    /\ UNCHANGED <<config, agent_conf, can_connect, status, current_config_hash,
                   pushed, plan, scrape_target, opened_ports, last, prev, passes,
                   pending_restart, given>>

\* Lines 213-226 of _configure on a document: what apply_config raises, and
\* the text the handler of ExporterConfigError logs.
ReportViolations ==
    /\ answer = None
    /\ given.fn = "_configure"
    /\ answer' = <<[exc     |-> apply_config(given.arg).exc,
                    err_msg |-> TranslateError(apply_config(given.arg).msg)]>>
    /\ UNCHANGED <<config, agent_conf, can_connect, status, current_config_hash,
                   pushed, plan, scrape_target, opened_ports, last, prev, passes,
                   pending_restart, given>>

\* render with one comma-separated text as controller-url and virtual-macs.
Render ==
    /\ answer = None
    /\ given.fn = "render"
    /\ answer' = <<render([ValidOptions EXCEPT !.controller_url = given.arg,
                                               !.virtual_macs = given.arg],
                          AgentConfPresent.cacert)>>
    /\ UNCHANGED <<config, agent_conf, can_connect, status, current_config_hash,
                   pushed, plan, scrape_target, opened_ports, last, prev, passes,
                   pending_restart, given>>

FunctionNext ==
    \/ ValidateConfig
    \/ ValidateOptionValues
    \/ ReportViolations
    \/ Render

FunctionSpec == FunctionInit /\ [][FunctionNext]_vars

-----------------------------------------------------------------------------
(* Properties.  L is the most recent pass, with the contexts pre and post  *)
(* it started from and ended with; P is the summary of the pass before it. *)

L == last[1]

P == prev[1]

\* The state a pass may change.
StateOf(c) == <<c.status, c.current_config_hash, c.pushed, c.plan,
                c.scrape_target, c.opened_ports>>

\* The pass got past the entry guard and rendered a document.
Rendered(r) == r.post.ran /\ r.post.rendered # None

\* The document the pass rendered is rejected by validate_config.
FailsValidation(r) ==
    Rendered(r) /\ validate_config(r.post.rendered[1]).exc = "ExporterConfigError"

\* The hash of the rendered document is the stored one when the pass starts.
HashUnchanged(r) ==
    Rendered(r) /\ r.pre.current_config_hash = <<sha256_hexdigest(r.post.rendered[1])>>

\* The push of the pass was refused.
PushFailed(r) == r.post.push_calls = 1 /\ r.post.pushes = 0

\* The push of the pass before was refused.
PushFailedBefore == prev # None /\ P.push_calls = 1 /\ P.pushes = 0

\* restart_pje was called and did not get to the end.
RestartFailed(r) == r.post.restart_pje_calls = 1 /\ r.post.restarted = 0

C2_Case ==
    /\ prev # None
    /\ last # None
    /\ P.ran
    /\ L.post.ran
    /\ P.hash_absent
    /\ L.same_options
    /\ P.valid
    /\ L.plan_kept

C2_OneThenNone ==
    /\ P.apply_calls = 1
    /\ P.push_calls = 1
    /\ P.restart_calls = 1
    /\ L.post.apply_calls = 0
    /\ L.post.push_calls = 0
    /\ L.post.add_layer_calls = 0
    /\ L.post.restart_calls = 0

C3_DriftRestarts ==
    (last # None /\ HashUnchanged(L) /\ L.pre.plan # _build_layer.services)
        => L.post.restart_pje_calls = 1 /\ L.post.add_layer_calls = 1

\* C4: a refused push leaves the stored hash as it was, the pass goes on to
\* the definition diff and does not end Blocked, and the next pass behind
\* the entry guard with the same options applies again.
C4_PushFailureRetried ==
    /\ (last # None /\ PushFailed(L)) =>
          /\ L.post.current_config_hash = L.pre.current_config_hash
          /\ current_config_hash = L.pre.current_config_hash
          /\ L.post.pushed = L.pre.pushed
          /\ L.post.returned = ""
          /\ L.post.diffed
          /\ L.post.restart
          /\ L.post.status.name # "blocked"
    /\ (PushFailedBefore /\ L.post.ran /\ L.same_options) =>
          /\ L.post.apply_calls = 1
          /\ L.post.push_calls = 1

\* C4 witness: the push refused in one pass succeeded in the next.
C4_Witness ==
    /\ PushFailedBefore
    /\ L.post.ran
    /\ L.same_options
    /\ L.post.pushes = 1
    /\ current_config_hash # None

\* C5: when the install or the restart in restart_pje fails, the status
\* after the pass is the status before the pass.
C5_RestartFailureKeepsStatus ==
    (last # None /\ RestartFailed(L)) => L.post.status = L.pre.status

\* C6: a pass that finds the container not reachable changes nothing and
\* does nothing: no status write, no render, validate, apply or restart.
C6_EntryGuard ==
    (last # None /\ ~L.connected) =>
        /\ StateOf(L.post) = StateOf(L.pre)
        /\ L.post = L.pre
        /\ L.post.writes = <<>>
        /\ ~L.post.ran
        /\ L.post.rendered = None
        /\ L.post.validation = "skipped"
        /\ L.post.apply_calls = 0
        /\ L.post.push_calls = 0
        /\ L.post.expose_calls = 0
        /\ L.post.restart_pje_calls = 0
        /\ status = L.pre.status
        /\ current_config_hash = L.pre.current_config_hash
        /\ pushed = L.pre.pushed

\* C6 witness: a skipped pass on a unit that was Active with a stored hash
\* while the options had become invalid.
C6_Witness ==
    /\ last # None
    /\ ~L.connected
    /\ L.pre.status = ActiveStatus
    /\ L.pre.current_config_hash # None
    /\ ~ValidOptionsIn(L)

C8_RegistrationFailureContained ==
    (last # None /\ L.post.expose_failures + L.post.ports_failures > 0) =>
        /\ L.post.raised = "none"
        /\ L.post.decided
        /\ (L.post.restart => L.post.restart_pje_calls = 1)
        /\ L.post.status.name \in {"active", "blocked"}

\* C9: a pass behind the entry guard with every option absent ends Blocked
\* and raises nothing.
C9_UnavailableOptionsBlock ==
    (last # None /\ L.post.ran /\ L.raw = UnavailableOptions) =>
        /\ L.post.raised = "none"
        /\ L.post.status.name = "blocked"

\* C10: a pass that starts Active with the hash unchanged and the installed
\* services equal to the desired ones writes no status.
C10_NoStatusChurn ==
    (last # None /\ HashUnchanged(L) /\ L.pre.plan = _build_layer.services
     /\ L.pre.status = ActiveStatus) =>
        L.post.writes = <<>>

-----------------------------------------------------------------------------
(* Properties of the functions applied on their own.  G is the argument   *)
(* and A what the function returned.                                       *)

G == given.arg

A == answer[1]

Applied(fn) == answer # None /\ given.fn = fn

\* The token occurs in the text.
Has(msg, token) == \E k \in 1..Len(msg) : msg[k] = token

\* The tokens of part occur in the text, one after the other.
Contains(msg, part) ==
    \E k \in 1..(Len(msg) - Len(part) + 1) : SubSeq(msg, k, k + Len(part) - 1) = part

\* The document lacks the k-th required option.
Lacks(doc, k) == ~Truthy(doc[_REQUIRED_CONFIG[k][1]][_REQUIRED_CONFIG[k][2]])

AnyMissing(doc) == \E k \in 1..Len(_REQUIRED_CONFIG) : Lacks(doc, k)

\* v is a number that int() accepts.
IsNumber(v) == PyIntOf(v).exc = "none"

PortViolation(v) == ~IsNumber(v) \/ ~(0 < PyIntOf(v).i /\ PyIntOf(v).i < 65535)

IntervalViolation(v) == ~IsNumber(v) \/ PyIntOf(v).i < 1

PortNotNumber == <<"Configuration option '", "port", "' must be a number.", "\n">>

PortOutOfRange(v) == <<"Port ", ToString(v.i), " is not valid port number.", "\n">>

IntervalNotNumber ==
    <<"Configuration option '", "collect_interval", "' must be a number.", "\n">>

IntervalNotPositive ==
    <<"Configuration option '", "collect_interval", "' must be a positive number.", "\n">>

C12_ValueSanity ==
    Applied("_validate_option_values") =>
        /\ A.exc = "none"
        /\ (A.errors = <<>>) <=>
              /\ G.exporter.port.t = "int"
              /\ 0 < G.exporter.port.i
              /\ G.exporter.port.i < 65535
              /\ G.exporter.collect_interval.t = "int"
              /\ G.exporter.collect_interval.i >= 1
        /\ (G.exporter.port.t = "int") =>
              /\ ~Contains(A.errors, PortNotNumber)
              /\ Contains(A.errors, PortOutOfRange(G.exporter.port))
                    <=> (G.exporter.port.i <= 0 \/ G.exporter.port.i >= 65535)
        /\ (G.exporter.port.t = "str") =>
              /\ Contains(A.errors, PortNotNumber)
              /\ ~Has(A.errors, "Port ")
        /\ (G.exporter.collect_interval.t = "int") =>
              /\ ~Contains(A.errors, IntervalNotNumber)
              /\ Contains(A.errors, IntervalNotPositive)
                    <=> (G.exporter.collect_interval.i < 1)
        /\ (G.exporter.collect_interval.t = "str") =>
              /\ Contains(A.errors, IntervalNotNumber)
              /\ ~Contains(A.errors, IntervalNotPositive)
        /\ PortNotNumber # PortOutOfRange(G.exporter.port)
        /\ IntervalNotNumber # IntervalNotPositive

\* C12 witness: port 65535 with interval 1 is rejected for the port alone.
C12_Witness ==
    /\ Applied("_validate_option_values")
    /\ G.exporter.port = PyInt(65535)
    /\ G.exporter.collect_interval = PyInt(1)
    /\ A.errors = PortOutOfRange(PyInt(65535))

\* The names the exporter's documents use for the options.
InternalNames ==
    { _REQUIRED_CONFIG[k][3] : k \in 1..Len(_REQUIRED_CONFIG) }
        \cup {"port", "collect_interval"}

\* C13: the text the controller logs for a document that fails validation
\* holds no internal name: neither the dotted name of one of the ten
\* required options nor 'port' or 'collect_interval'.
C13_MissingNamedExternally ==
    (Applied("_configure") /\ A.exc = "ExporterConfigError") =>
        \A k \in 1..Len(A.err_msg) : A.err_msg[k] \notin InternalNames

\* The elements of a rendered collection; the empty text has none.
Elements(v) == IF v.t = "list" THEN v.l ELSE <<>>

\* The text split on "," with every element trimmed; nothing for "".
TrimmedPieces(chars) ==
    IF chars = <<>> THEN <<>>
    ELSE [k \in 1..Len(Split(chars, ",")) |->
             StripRight(StripLeft(Split(chars, ",")[k]))]

\* C14: render derives controller_endpoint and virt_macs from a
\* comma-separated text by splitting on "," and trimming every element;
\* the empty text gives an empty collection, "a" gives ["a"].
C14_CommaListsTrimmed ==
    Applied("render") =>
        /\ A.juju.controller_endpoint.t = "list"
              \/ A.juju.controller_endpoint = PyStr(<<>>)
        /\ A.detection.virt_macs.t = "list"
        /\ Elements(A.juju.controller_endpoint) = TrimmedPieces(G.s)
        /\ Elements(A.detection.virt_macs) = TrimmedPieces(G.s)

-----------------------------------------------------------------------------
(* Properties of sequences of passes *)

\* C15: in a pass behind the entry guard that reaches the restart decision,
\* the installed services were compared, and restart_pje is run exactly
\* when the hash of the rendered document was not the stored one at the
\* start of the pass or the installed services differed from the desired.
C15_RestartTriggers ==
    (last # None /\ L.post.ran /\ L.post.decided) =>
        /\ L.post.validation \in {"none", "skipped"}
        /\ L.post.diffed
        /\ L.post.restart <=>
              (~HashUnchanged(L) \/ L.pre.plan # _build_layer.services)
        /\ (L.post.restart_pje_calls = 1) <=> L.post.restart
        /\ (L.post.restart_pje_calls = 0) <=> ~L.post.restart

\* C15 witness: the hash was unchanged and the installed services alone
\* made the pass restart the service.
C15_Witness ==
    /\ last # None
    /\ L.post.decided
    /\ HashUnchanged(L)
    /\ L.pre.plan # _build_layer.services
    /\ L.post.restart_pje_calls = 1
    /\ L.post.restarted = 1

\* The stored hash is absent or the hash of the document last pushed.
HashOfPushed ==
    \/ current_config_hash = None
    \/ /\ pushed # None
       /\ current_config_hash = <<sha256_hexdigest(pushed[1][2])>>

\* The stored hash changes only in a pass that validated its document and
\* pushed it, to the hash of that document, and never back to absent.
HashChangesOnlyOnApply ==
    (current_config_hash' # current_config_hash) =>
        /\ passes' = passes + 1
        /\ last' # None
        /\ last'[1].connected
        /\ last'[1].post.validation = "none"
        /\ last'[1].post.push_calls = 1
        /\ last'[1].post.pushes = 1
        /\ pushed' = <<safe_dump(last'[1].post.rendered[1])>>
        /\ current_config_hash' = <<sha256_hexdigest(last'[1].post.rendered[1])>>
        /\ current_config_hash' # None

\* C16: the stored hash is absent at the start; in every state it is absent
\* or the hash of a document whose push succeeded; and it changes only in
\* a pass whose apply succeeded, so that a validation failure, a refused
\* push, a failed restart or a skipped pass neither changes it nor sets it
\* back.
C16_FingerprintLifecycle ==
    /\ current_config_hash = None
    /\ []HashOfPushed
    /\ [][HashChangesOnlyOnApply]_vars

\* C16 witness: a pass whose push was refused kept the hash stored by the
\* pass before it.
C16_Witness ==
    /\ prev # None
    /\ last # None
    /\ P.pushes = 1
    /\ PushFailed(L)
    /\ current_config_hash # None
    /\ current_config_hash = L.pre.current_config_hash
    /\ current_config_hash # <<sha256_hexdigest(L.post.rendered[1])>>

\* The pass met an apply, registration or restart failure.
OtherError(r) ==
    \/ PushFailed(r)
    \/ RestartFailed(r)
    \/ r.post.expose_failures + r.post.ports_failures > 0

\* C17: the status is set to Blocked only in a pass whose rendered document
\* failed validation, and a pass that met any other error leaves the status
\* it found, or Active when it restarted the service.
C17_OnlyValidationChangesStatus ==
    last # None =>
        /\ Has(L.post.writes, BlockedStatus) => FailsValidation(L)
        /\ (OtherError(L) /\ ~FailsValidation(L)) =>
              L.post.status \in {L.pre.status, ActiveStatus}

\* C18: when a pass behind the entry guard ends Active, the service has
\* been restarted since the last document was pushed.
C18_ActiveMeansRestarted ==
    (last # None /\ L.post.ran /\ status = ActiveStatus) => ~pending_restart

\* The rendered document of the pass is not one validate_config accepts.
InvalidDocument(r) == Rendered(r) /\ validate_config(r.post.rendered[1]).exc # "none"

\* C19: the stored hash is only ever the hash of a document that
\* validate_config accepts, so a pass whose rendered document is invalid
\* finds its hash changed, validates it, and reaches neither the definition
\* diff, the registration, the restart nor Active.
C19_InvalidNeverProceeds ==
    /\ current_config_hash # None =>
          /\ pushed # None
          /\ current_config_hash = <<sha256_hexdigest(pushed[1][2])>>
          /\ validate_config(pushed[1][2]).exc = "none"
    /\ (last # None /\ InvalidDocument(L)) =>
          /\ ~HashUnchanged(L)
          /\ L.post.apply_calls = 1
          /\ L.post.validation # "none"
          /\ ~L.post.diffed
          /\ L.post.expose_calls = 0
          /\ ~L.post.decided
          /\ L.post.restart_pje_calls = 0
          /\ L.post.restart_calls = 0
          /\ ~Has(L.post.writes, ActiveStatus)
          /\ L.post.status.name # "active"

\* C19 witness: with the hash of a valid document stored by the pass
\* before, a pass rendered an invalid document, validated it and stopped.
C19_Witness ==
    /\ prev # None
    /\ last # None
    /\ P.pushes = 1
    /\ P.restarted = 1
    /\ L.pre.current_config_hash # None
    /\ InvalidDocument(L)
    /\ L.post.validation = "ExporterConfigError"
    /\ ~L.post.diffed
    /\ status = BlockedStatus

====
